---- MODULE Spec2Model ----
(***************************************************************************)
(* Van List 2026: the daily-assignment engine of app/routes/assignments.py *)
(* over the tables of app/models.py.                                       *)
(*                                                                         *)
(* Spec      the request handlers run one at a time (each handler is one   *)
(*           action, from its first query to its commit or rollback).      *)
(* SpecNotes the same handlers on one date, with notes on the rows.        *)
(* SpecConc  create requests run as concurrent transactions, split at the  *)
(*           points where the handler talks to the store.                  *)
(***************************************************************************)
EXTENDS Integers, Sequences, FiniteSets, TLC

\* ---------------------------------------------------------------- bounds
NumDates == 2
NumVans == 2
NumDrivers == 2
\* largest primary key daily_assignments hands out in the model
MaxId == 3
\* longest notes string a pair may build in the model
MaxNotesLen == 4
MaxTokenLen == 2
MaxTokens == 2
MaxUsers == 5

Dates == 1..NumDates
VanIds == 1..NumVans
DriverIds == 1..NumDrivers
RowIds == 1..MaxId

\* SQL NULL / Python None in an integer column
NULL == 0
\* an id no Van (Driver) row ever has
MissingVan == NumVans + 1
MissingDriver == NumDrivers + 1

\* Optional[str]: << >> is None, <<s>> is the string s
NoNotes == << >>
NoteVals == {NoNotes, <<"n">>}

\* the two requests of a race
Procs == {1, 2}
UserIds == 1..MaxUsers

\* the accounts before any request: an admin, an operator, a readonly user
\* and an account whose role is none of the three
DefaultUsers ==
    [u \in 1..4 |-> [role |-> CASE u = 1 -> "admin" [] u = 2 -> "operator"
                                 [] u = 3 -> "readonly" [] OTHER -> "guest",
                     active |-> TRUE]]

VARIABLES
    rows,       \* daily_assignments, committed: a set of rows
    preassign,  \* driver_van_preassignments: a set of records [id, driver, van]
    vans,       \* vans: van id -> [active]
    drivers,    \* drivers: driver id -> [active]
    resp,       \* the response to the last request handled on its own
    procs,      \* the requests in flight: one transaction each
    audit,      \* audit_logs, committed: the requests whose entry is stored
    writes,     \* the requests whose assignment-row changes are committed
    users       \* users: user id -> [role, active]

vars == <<rows, preassign, vans, drivers, resp, procs, audit, writes, users>>

\* ---------------------------------------------------------------- tables

\* a daily_assignments row (models.py DailyAssignment)
DailyAssignment(i, d, v, r, n) ==
    [id |-> i, date |-> d, van |-> v, driver |-> r, notes |-> n]

RowOf(rws, i) == CHOOSE a \in rws : a.id = i

HasRow(rws, i) == \E a \in rws : a.id = i

\* the table with uq_date_van alone: no constraint on (date, driver)
UniqueOKVanOnly(rws) ==
    \A a, b \in rws :
        a.id # b.id /\ a.date = b.date => (a.van # NULL => a.van # b.van)

\* uq_date_van and uq_date_driver; SQL NULLs never collide
UniqueOK(rws) ==
    \A a, b \in rws :
        a.id # b.id /\ a.date = b.date =>
            /\ (a.van # NULL => a.van # b.van)
            /\ (a.driver # NULL => a.driver # b.driver)

\* Integer primary key: the next rowid is the largest one in use plus one
NewId(rws) ==
    IF rws = {} THEN 1
    ELSE (CHOOSE m \in {a.id : a \in rws} : \A a \in rws : a.id <= m) + 1

\* .filter(assignment_date == d, van_id == v).first() is not None
VanTaken(rws, d, v) == \E a \in rws : a.date = d /\ a.van = v

DriverTaken(rws, d, r) == \E a \in rws : a.date = d /\ a.driver = r

\* a response: the handler, its HTTP status, which exit it took, and the ids
\* (create, update, pair, unpair) or counts (bulk uploads) it returns
Response(op, status, detail, i, j) ==
    [op |-> op, status |-> status, detail |-> detail, id |-> i, id2 |-> j,
     created |-> 0, skipped |-> 0]

BulkResponse(op, created, skipped) ==
    [op |-> op, status |-> 200, detail |-> "uploaded", id |-> NULL, id2 |-> NULL,
     created |-> created, skipped |-> skipped]

\* `if n` on Optional[str]
Truthy(n) == n # NoNotes /\ n[1] # ""

\* models.DriverVanPreassignment
Preassignment(i, r, v) == [id |-> i, driver |-> r, van |-> v]

\* a lookup that never finds the driver's record
ExistingPreassignmentNone(tbl, r) == {}

\* .filter(DriverVanPreassignment.driver_id == r): the records .first() draws from
ExistingPreassignment(tbl, r) == {p \in tbl : p.driver = r}

\* the van of the driver's preassignment, NULL if there is none
PreassignedVan(r) ==
    IF ExistingPreassignment(preassign, r) = {} THEN NULL
    ELSE (CHOOSE p \in ExistingPreassignment(preassign, r) : TRUE).van

\* ---------------------------------------------------------------- create

\* a request schema without the at_least_one validator
AtLeastOneOff(v, r) == TRUE

\* schemas.py AssignmentCreate.at_least_one: the body is accepted
AtLeastOne(v, r) == ~(v = NULL /\ r = NULL)

\* the van block without its lookup of the van
CreateVanCheckNoLookup(rws, d, v) ==
    IF v = NULL THEN "ok"
    ELSE IF VanTaken(rws, d, v) THEN "van_conflict"
    ELSE "ok"

\* create_assignment's van block: lookup, then the (date, van) scan
CreateVanCheck(rws, d, v) ==
    IF v = NULL THEN "ok"
    ELSE IF v \notin DOMAIN vans THEN "van_not_found"
    ELSE IF VanTaken(rws, d, v) THEN "van_conflict"
    ELSE "ok"

\* create_assignment's driver block: lookup, then the (date, driver) scan
CreateDriverCheck(rws, d, r) ==
    IF r = NULL THEN "ok"
    ELSE IF r \notin DOMAIN drivers THEN "driver_not_found"
    ELSE IF DriverTaken(rws, d, r) THEN "driver_conflict"
    ELSE "ok"

\* the two blocks in the other order: the driver's check first
CreateCheckDriverFirst(rws, d, v, r) ==
    IF ~AtLeastOne(v, r) THEN "validation"
    ELSE IF CreateDriverCheck(rws, d, r) # "ok" THEN CreateDriverCheck(rws, d, r)
    ELSE CreateVanCheck(rws, d, v)

\* the read side of create_assignment: the first check that fails, van first
CreateCheck(rws, d, v, r) ==
    IF ~AtLeastOne(v, r) THEN "validation"
    ELSE IF CreateVanCheck(rws, d, v) # "ok" THEN CreateVanCheck(rws, d, v)
    ELSE CreateDriverCheck(rws, d, r)

\* conflicts answered as 400 Bad Request
StatusOfConflict400(outcome) ==
    CASE outcome = "validation" -> 422
      [] outcome \in {"van_not_found", "driver_not_found", "not_found"} -> 404
      [] outcome \in {"created", "autofilled"} -> 201
      [] outcome = "crash" -> 500
      [] outcome \in {"updated", "deleted", "paired", "unpaired"} -> 200
      [] OTHER -> 400

\* HTTP status of each outcome
StatusOf(outcome) ==
    CASE outcome = "validation" -> 422
      [] outcome = "unauthenticated" -> 401
      [] outcome = "forbidden" -> 403
      [] outcome \in {"van_not_found", "driver_not_found", "not_found"} -> 404
      [] outcome \in {"van_conflict", "driver_conflict", "integrity",
                      "username_taken"} -> 409
      [] outcome \in {"no_driver", "has_van", "no_van", "has_driver",
                      "same_date", "not_paired", "bad_role"} -> 400
      [] outcome \in {"created", "autofilled", "replaced"} -> 201
      [] outcome = "crash" -> 500
      [] OTHER -> 200

\* a create without the auto-fill step
AutoFillVanOff(rws, a) == NULL

\* an auto-fill that does not look whether the van is taken on the date
AutoFillVanUnchecked(rws, a) ==
    IF a.driver # NULL /\ a.van = NULL /\ PreassignedVan(a.driver) # NULL
    THEN PreassignedVan(a.driver)
    ELSE NULL

\* the auto-fill of create_assignment: the van put on the flushed row a of
\* the transaction's view rws, NULL when the row is left as it is
AutoFillVan(rws, a) ==
    IF a.driver # NULL /\ a.van = NULL
       /\ PreassignedVan(a.driver) # NULL
       /\ ~VanTaken(rws, a.date, PreassignedVan(a.driver))
    THEN PreassignedVan(a.driver)
    ELSE NULL

\* the row after the auto-fill step
AutoFilled(rws, a) ==
    IF AutoFillVan(rws, a) # NULL THEN [a EXCEPT !.van = AutoFillVan(rws, a)] ELSE a

Fail(op, outcome) ==
    /\ rows' = rows
    /\ resp' = Response(op, StatusOf(outcome), outcome, NULL, NULL)

\* POST /api/assignments
CreateAssignment(d, v, r, n) ==
    LET chk == CreateCheck(rows, d, v, r)
        a == DailyAssignment(NewId(rows), d, v, r, n)
        flushed == rows \cup {a}
        b == AutoFilled(flushed, a)
        final == rows \cup {b}
    IN  /\ chk = "ok" => NewId(rows) <= MaxId
        /\ IF chk # "ok" THEN Fail("create", chk)
           ELSE IF ~UniqueOK(flushed) THEN Fail("create", "integrity")
           ELSE IF ~UniqueOK(final) THEN Fail("create", "crash")
           ELSE /\ rows' = final
                /\ resp' = Response("create", 201,
                                    IF b = a THEN "created" ELSE "autofilled",
                                    a.id, NULL)
        /\ UNCHANGED <<preassign, vans, drivers>>

\* ---------------------------------------------------------------- update

\* the conflict scans of create on an update: the row itself is scanned too
UpdateCheckSelf(rws, i, d, v, r) ==
    IF ~AtLeastOne(v, r) THEN "validation"
    ELSE IF ~HasRow(rws, i) THEN "not_found"
    ELSE IF v # NULL /\ VanTaken(rws, d, v) THEN "van_conflict"
    ELSE IF r # NULL /\ DriverTaken(rws, d, r) THEN "driver_conflict"
    ELSE "ok"

\* an update whose body is not validated
UpdateCheckNoValidator(rws, i, d, v, r) ==
    IF ~HasRow(rws, i) THEN "not_found"
    ELSE IF v # NULL /\ VanTaken({a \in rws : a.id # i}, d, v) THEN "van_conflict"
    ELSE IF r # NULL /\ DriverTaken({a \in rws : a.id # i}, d, r) THEN "driver_conflict"
    ELSE "ok"

\* update_assignment's conflict scans, the row itself excluded
UpdateCheck(rws, i, d, v, r) ==
    IF ~AtLeastOne(v, r) THEN "validation"
    ELSE IF ~HasRow(rws, i) THEN "not_found"
    ELSE IF v # NULL /\ VanTaken({a \in rws : a.id # i}, d, v) THEN "van_conflict"
    ELSE IF r # NULL /\ DriverTaken({a \in rws : a.id # i}, d, r) THEN "driver_conflict"
    ELSE "ok"

\* an update that applies create's auto-fill to the row it has written
OverwrittenAutoFill(rws, i, d, v, r, n) ==
    LET a == DailyAssignment(i, d, v, r, n)
    IN  AutoFilled({b \in rws : b.id # i} \cup {a}, a)

\* the row of update_assignment after its four fields are assigned from the
\* request body; the handler looks at no preassignment
Overwritten(rws, i, d, v, r, n) == DailyAssignment(i, d, v, r, n)

\* ForeignKey("vans.id"), ForeignKey("drivers.id"): the van and the driver a
\* row names are records of their tables
RefsExist(v, r) ==
    /\ v = NULL \/ v \in DOMAIN vans
    /\ r = NULL \/ r \in DOMAIN drivers

\* the handler looks up neither the van nor the driver; a reference to a
\* missing record is rejected by the flush where the store enforces foreign
\* keys (IntegrityError, answered 409) and written where it does not

\* PUT /api/assignments/{assignment_id}
UpdateAssignment(i, d, v, r, n) ==
    LET chk == UpdateCheck(rows, i, d, v, r)
        final == {a \in rows : a.id # i} \cup {Overwritten(rows, i, d, v, r, n)}
    IN  /\ IF chk # "ok" THEN Fail("update", chk)
           ELSE IF ~UniqueOK(final) THEN Fail("update", "integrity")
           ELSE IF ~RefsExist(v, r)
           THEN \/ Fail("update", "integrity")
                \/ /\ rows' = final
                   /\ resp' = Response("update", 200, "updated", i, NULL)
           ELSE /\ rows' = final
                /\ resp' = Response("update", 200, "updated", i, NULL)
        /\ UNCHANGED <<preassign, vans, drivers>>

\* ---------------------------------------------------------------- delete

\* a delete that answers 200 and leaves the row in the table
DeleteAssignmentKeepsRow(i) ==
    /\ IF ~HasRow(rows, i) THEN Fail("delete", "not_found")
       ELSE /\ rows' = rows
            /\ resp' = Response("delete", 200, "deleted", i, NULL)
    /\ UNCHANGED <<preassign, vans, drivers>>

\* DELETE /api/assignments/{assignment_id}
DeleteAssignment(i) ==
    /\ IF ~HasRow(rows, i) THEN Fail("delete", "not_found")
       ELSE /\ rows' = {a \in rows : a.id # i}
            /\ resp' = Response("delete", 200, "deleted", i, NULL)
    /\ UNCHANGED <<preassign, vans, drivers>>

\* ---------------------------------------------------------------- pair

\* the checks of a pair that never look at the shape of the van row
PairCheckVanRowUnchecked(rws, i, j) ==
    IF ~HasRow(rws, i) THEN "not_found"
    ELSE IF RowOf(rws, i).driver = NULL THEN "no_driver"
    ELSE IF RowOf(rws, i).van # NULL THEN "has_van"
    ELSE IF ~HasRow(rws, j) THEN "not_found"
    ELSE IF RowOf(rws, i).date # RowOf(rws, j).date THEN "same_date"
    ELSE "ok"

\* the checks of a pair without the same-date check
PairCheckAnyDate(rws, i, j) ==
    IF ~HasRow(rws, i) THEN "not_found"
    ELSE IF RowOf(rws, i).driver = NULL THEN "no_driver"
    ELSE IF RowOf(rws, i).van # NULL THEN "has_van"
    ELSE IF ~HasRow(rws, j) THEN "not_found"
    ELSE IF RowOf(rws, j).van = NULL THEN "no_van"
    ELSE IF RowOf(rws, j).driver # NULL THEN "has_driver"
    ELSE "ok"

\* pair_assignments' checks, in the order of the handler
PairCheck(rws, i, j) ==
    IF ~HasRow(rws, i) THEN "not_found"
    ELSE IF RowOf(rws, i).driver = NULL THEN "no_driver"
    ELSE IF RowOf(rws, i).van # NULL THEN "has_van"
    ELSE IF ~HasRow(rws, j) THEN "not_found"
    ELSE IF RowOf(rws, j).van = NULL THEN "no_van"
    ELSE IF RowOf(rws, j).driver # NULL THEN "has_driver"
    ELSE IF RowOf(rws, i).date # RowOf(rws, j).date THEN "same_date"
    ELSE "ok"

\* a merge that keeps the notes of the van row alone
PairNotesVanOnly(dn, vn) == vn

\* "; ".join(n for n in [driver notes, van notes] if n), kept when both empty
PairNotes(dn, vn) ==
    IF Truthy(dn) /\ Truthy(vn) THEN <<dn[1] \o "; " \o vn[1]>>
    ELSE IF Truthy(dn) THEN dn
    ELSE IF Truthy(vn) THEN vn
    ELSE dn

NotesLen(n) == IF n = NoNotes THEN 0 ELSE Len(n[1])

\* a pair that merges the notes and forgets the van
PairedNoVan(da, va) ==
    [da EXCEPT !.notes = PairNotes(da.notes, va.notes)]

\* the surviving row of a pair: the driver row with the van row's van
Paired(da, va) ==
    [da EXCEPT !.van = va.van, !.notes = PairNotes(da.notes, va.notes)]

\* POST /api/assignments/pair
PairAssignments(i, j) ==
    LET chk == PairCheck(rows, i, j)
        da == RowOf(rows, i)
        va == RowOf(rows, j)
        freed == rows \ {va}
        final == (freed \ {da}) \cup {Paired(da, va)}
    IN  /\ chk = "ok" => NotesLen(PairNotes(da.notes, va.notes)) <= MaxNotesLen
        /\ IF chk # "ok" THEN Fail("pair", chk)
           ELSE IF ~UniqueOK(final) THEN Fail("pair", "integrity")
           ELSE /\ rows' = final
                /\ resp' = Response("pair", 200, "paired", i, NULL)
        /\ UNCHANGED <<preassign, vans, drivers>>

\* ---------------------------------------------------------------- unpair

\* the checks of an unpair without the fully-paired check
UnpairCheckExistsOnly(rws, i) ==
    IF ~HasRow(rws, i) THEN "not_found" ELSE "ok"

\* unpair_assignment's checks
UnpairCheck(rws, i) ==
    IF ~HasRow(rws, i) THEN "not_found"
    ELSE IF RowOf(rws, i).van = NULL \/ RowOf(rws, i).driver = NULL THEN "not_paired"
    ELSE "ok"

\* a new row that copies the driver of the unpaired row
VanOnlyKeepsDriver(i, a) == DailyAssignment(i, a.date, a.van, a.driver, NoNotes)

\* a new row that copies the notes of the unpaired row
VanOnlyKeepsNotes(i, a) == DailyAssignment(i, a.date, a.van, NULL, a.notes)

\* the new van-only row of an unpair
VanOnly(i, a) == DailyAssignment(i, a.date, a.van, NULL, NoNotes)

\* POST /api/assignments/{assignment_id}/unpair
UnpairAssignment(i) ==
    LET chk == UnpairCheck(rows, i)
        a == RowOf(rows, i)
        final == (rows \ {a}) \cup {[a EXCEPT !.van = NULL], VanOnly(NewId(rows), a)}
    IN  /\ chk = "ok" => NewId(rows) <= MaxId
        /\ IF chk # "ok" THEN Fail("unpair", chk)
           ELSE IF ~UniqueOK(final) THEN Fail("unpair", "integrity")
           ELSE /\ rows' = final
                /\ resp' = Response("unpair", 200, "unpaired", i, NewId(rows))
        /\ UNCHANGED <<preassign, vans, drivers>>

\* ---------------------------------------------------------------- bulk

\* the orders in which a Python set of the elements of S may be iterated
Orders(S) ==
    {o \in [1..Cardinality(S) -> S] : \A x, y \in DOMAIN o : x # y => o[x] # o[y]}

MaxKey(f) == IF DOMAIN f = {} THEN 0
             ELSE CHOOSE m \in DOMAIN f : \A k \in DOMAIN f : k <= m

\* the record of tbl whose code (employee_id) is c, NULL if there is none
IdOfCode(tbl, c) ==
    IF \E i \in DOMAIN tbl : tbl[i].code = c
    THEN CHOOSE i \in DOMAIN tbl : tbl[i].code = c
    ELSE NULL

\* an import that re-activates the known codes and inserts nothing
RECURSIVE UpsertKnownOnly(_, _, _)
UpsertKnownOnly(tbl, o, k) ==
    IF k > Len(o) THEN tbl
    ELSE LET i == IdOfCode(tbl, o[k])
         IN  IF i # NULL
             THEN UpsertKnownOnly([tbl EXCEPT ![i].active = TRUE], o, k + 1)
             ELSE UpsertKnownOnly(tbl, o, k + 1)

\* import_service.import_vans / import_drivers on a file whose usable rows
\* carry the codes in order o: known codes are re-activated, unknown ones
\* inserted, and then every active record not named by the file is deactivated
RECURSIVE Upsert(_, _, _)
Upsert(tbl, o, k) ==
    IF k > Len(o) THEN tbl
    ELSE LET i == IdOfCode(tbl, o[k])
         IN  IF i # NULL
             THEN Upsert([tbl EXCEPT ![i].active = TRUE], o, k + 1)
             ELSE Upsert([j \in DOMAIN tbl \cup {MaxKey(tbl) + 1} |->
                            IF j \in DOMAIN tbl THEN tbl[j]
                            ELSE [code |-> o[k], active |-> TRUE]], o, k + 1)

Import(tbl, o) ==
    LET up == Upsert(tbl, o, 1)
        named == {o[k] : k \in DOMAIN o}
    IN  IF named = {} THEN up
        ELSE [i \in DOMAIN up |->
                [up[i] EXCEPT !.active = up[i].active /\ up[i].code \in named]]

\* {v.code: v for v in vans if v.active}.get(c), NULL for None
ActiveOfCode(tbl, c) ==
    IF \E i \in DOMAIN tbl : tbl[i].active /\ tbl[i].code = c
    THEN CHOOSE i \in DOMAIN tbl : tbl[i].active /\ tbl[i].code = c
    ELSE NULL

\* the loop without its test of existing_ids: every resolved code gets a row
RECURSIVE VanLoopNoSkip(_, _, _, _, _, _)
VanLoopNoSkip(tbl, existing, d, o, k, st) ==
    IF k > Len(o) THEN st
    ELSE LET v == ActiveOfCode(tbl, o[k])
         IN  IF v = NULL THEN VanLoopNoSkip(tbl, existing, d, o, k + 1, st)
             ELSE VanLoopNoSkip(tbl, existing, d, o, k + 1,
                                [st EXCEPT !.created = @ + 1,
                                           !.rows = @ \cup {DailyAssignment(
                                               NewId(@), d, v, NULL, NoNotes)}])

\* the loop of bulk_upload_vans over target_codes in order o: the state after
\* codes k.. are handled, from the pending rows, created and skipped so far
RECURSIVE VanLoop(_, _, _, _, _, _)
VanLoop(tbl, existing, d, o, k, st) ==
    IF k > Len(o) THEN st
    ELSE LET v == ActiveOfCode(tbl, o[k])
         IN  IF v = NULL THEN VanLoop(tbl, existing, d, o, k + 1, st)
             ELSE IF v \in existing
             THEN VanLoop(tbl, existing, d, o, k + 1,
                          [st EXCEPT !.skipped = @ + 1])
             ELSE VanLoop(tbl, existing, d, o, k + 1,
                          [st EXCEPT !.created = @ + 1,
                                     !.rows = @ \cup {DailyAssignment(
                                         NewId(@), d, v, NULL, NoNotes)}])

\* POST /api/assignments/bulk-upload-vans: codes are the van codes of the file
BulkUploadVans(d, o) ==
    LET tbl == Import(vans, o)
        existing == {a.van : a \in {b \in rows : b.date = d /\ b.van # NULL}}
        st == VanLoop(tbl, existing, d, o, 1,
                      [rows |-> rows, created |-> 0, skipped |-> 0])
    IN  /\ \A a \in st.rows : a.id <= MaxId
        /\ vans' = tbl
        /\ IF ~UniqueOK(st.rows)
           THEN Fail("bulk_vans", "crash")
           ELSE /\ rows' = st.rows
                /\ resp' = BulkResponse("bulk_vans", st.created, st.skipped)
        /\ UNCHANGED <<preassign, drivers>>

\* a batch that tests the vans against the snapshot taken before its loop
OccupyOff(occupied, v) == occupied

\* existing_van_ids.add(van_id) when a van was attached
Occupy(occupied, v) == IF v # NULL THEN occupied \cup {v} ELSE occupied

\* the loop of bulk_upload_drivers over target_employee_ids in order o;
\* st.vans is existing_van_ids, which grows as the batch hands out vans
RECURSIVE DriverLoop(_, _, _, _, _, _)
DriverLoop(tbl, existing, d, o, k, st) ==
    IF k > Len(o) THEN st
    ELSE LET r == ActiveOfCode(tbl, o[k])
             pv == PreassignedVan(r)
             v == IF pv # NULL /\ pv \notin st.vans THEN pv ELSE NULL
         IN  IF r = NULL THEN DriverLoop(tbl, existing, d, o, k + 1, st)
             ELSE IF r \in existing
             THEN DriverLoop(tbl, existing, d, o, k + 1,
                             [st EXCEPT !.skipped = @ + 1])
             ELSE DriverLoop(tbl, existing, d, o, k + 1,
                             [st EXCEPT !.created = @ + 1,
                                        !.vans = Occupy(@, v),
                                        !.rows = @ \cup {DailyAssignment(
                                            NewId(@), d, v, r, NoNotes)}])

\* POST /api/assignments/bulk-upload-drivers with a Simple or Schedule file
\* (employee ids); every row of the file has an id and a name
BulkUploadDrivers(d, o) ==
    LET tbl == Import(drivers, o)
        existing == {a.driver : a \in {b \in rows : b.date = d /\ b.driver # NULL}}
        vanIds == {a.van : a \in {b \in rows : b.date = d /\ b.van # NULL}}
        st == DriverLoop(tbl, existing, d, o, 1,
                         [rows |-> rows, created |-> 0, skipped |-> 0,
                          vans |-> vanIds])
    IN  /\ \A a \in st.rows : a.id <= MaxId
        /\ drivers' = tbl
        /\ IF ~UniqueOK(st.rows)
           THEN Fail("bulk_drivers", "crash")
           ELSE /\ rows' = st.rows
                /\ resp' = BulkResponse("bulk_drivers", st.created, st.skipped)
        /\ UNCHANGED <<preassign, vans>>

\* the loop of _bulk_assign_by_name over the names of the file; m[k] is the
\* driver _fuzzy_match_driver returns for the k-th name among the drivers not
\* matched yet, NULL when it returns None; existing is existing_ids, which
\* grows with the drivers the batch gives a row
RECURSIVE NameLoop(_, _, _, _, _)
NameLoop(existing, d, m, k, st) ==
    IF k > Len(m) THEN st
    ELSE LET r == m[k]
             pv == PreassignedVan(r)
             v == IF pv # NULL /\ pv \notin st.vans THEN pv ELSE NULL
         IN  IF r = NULL THEN NameLoop(existing, d, m, k + 1, st)
             ELSE IF r \in existing
             THEN NameLoop(existing, d, m, k + 1, [st EXCEPT !.skipped = @ + 1])
             ELSE NameLoop(existing \cup {r}, d, m, k + 1,
                           [st EXCEPT !.created = @ + 1,
                                      !.vans = Occupy(@, v),
                                      !.rows = @ \cup {DailyAssignment(
                                          NewId(@), d, v, r, NoNotes)}])

\* POST /api/assignments/bulk-upload-drivers with a Driver Route file: the
\* names are matched against the active drivers, no driver is imported
BulkAssignByName(d, m) ==
    LET existing == {a.driver : a \in {b \in rows : b.date = d /\ b.driver # NULL}}
        vanIds == {a.van : a \in {b \in rows : b.date = d /\ b.van # NULL}}
        st == NameLoop(existing, d, m, 1,
                       [rows |-> rows, created |-> 0, skipped |-> 0,
                        vans |-> vanIds])
    IN  /\ \A k \in DOMAIN m :
              m[k] # NULL => m[k] \in DOMAIN drivers /\ drivers[m[k]].active
        /\ \A a \in st.rows : a.id <= MaxId
        /\ IF ~UniqueOK(st.rows)
           THEN Fail("bulk_names", "crash")
           ELSE /\ rows' = st.rows
                /\ resp' = BulkResponse("bulk_names", st.created, st.skipped)
        /\ UNCHANGED <<preassign, vans, drivers>>

\* ---------------------------------------------------------------- names

\* A name as it is written in a file or in drivers.name: its words, in lower
\* case and in order, and whether the written form is capitalised. Words are
\* separated by single spaces.
Chars == {"a", "b"}

Tokens == UNION {[1..n -> Chars] : n \in 1..MaxTokenLen}

Name(tokens, caps) == [tokens |-> tokens, caps |-> caps]

\* the names of one to MaxTokens words
Names ==
    {Name(t, c) : t \in UNION {[1..n -> Tokens] : n \in 1..MaxTokens},
                  c \in BOOLEAN}

EmptyName == Name(<< >>, FALSE)

\* name.strip().lower().split(): the capitalisation is gone
Normalized(name) == name.tokens

\* t.startswith(s)
StartsWith(t, s) == Len(s) <= Len(t) /\ SubSeq(t, 1, Len(s)) = s

\* dt.startswith(ft) or ft.startswith(dt)
PrefixRelated(s, t) == StartsWith(t, s) \/ StartsWith(s, t)

\* tier 1: d.name.strip().lower() == normalized
ExactMatch(tbl, name, r) == Normalized(tbl[r].name) = Normalized(name)

\* tier 2: same last word, first words equal or one a prefix of the other
LastNameMatch(tbl, name, r) ==
    LET ft == Normalized(name)
        dt == Normalized(tbl[r].name)
    IN  /\ dt # << >>
        /\ dt[Len(dt)] = ft[Len(ft)]
        /\ PrefixRelated(dt[1], ft[1])

\* tier 3: every word of the file name is prefix-related to some word of the
\* driver's name
TokenMatch(tbl, name, r) ==
    LET ft == Normalized(name)
        dt == Normalized(tbl[r].name)
    IN  \A i \in DOMAIN ft : \E j \in DOMAIN dt : PrefixRelated(dt[j], ft[i])

\* the positions of list pool whose driver passes the first tier
ExactMatches(tbl, name, pool) == {k \in DOMAIN pool : ExactMatch(tbl, name, pool[k])}

\* the positions of the second tier's candidates
LastNameMatches(tbl, name, pool) ==
    {k \in DOMAIN pool : LastNameMatch(tbl, name, pool[k])}

\* the positions of list pool whose driver passes the third tier
TokenMatches(tbl, name, pool) == {k \in DOMAIN pool : TokenMatch(tbl, name, pool[k])}

\* the first driver of list pool at one of the positions ks
FirstOf(pool, ks) == pool[CHOOSE k \in ks : \A j \in ks : k <= j]

\* a matcher without the second tier
FuzzyMatchDriverNoTier2(tbl, name, pool) ==
    LET exact == ExactMatches(tbl, name, pool)
        tokens == TokenMatches(tbl, name, pool)
    IN  IF Normalized(name) = << >> THEN NULL
        ELSE IF exact # {} THEN FirstOf(pool, exact)
        ELSE IF tokens # {} THEN FirstOf(pool, tokens)
        ELSE NULL

\* _fuzzy_match_driver(file_name, drivers): the driver of list pool matched
\* to the name, NULL for None
FuzzyMatchDriver(tbl, name, pool) ==
    LET exact == ExactMatches(tbl, name, pool)
        candidates == LastNameMatches(tbl, name, pool)
        tokens == TokenMatches(tbl, name, pool)
    IN  IF Normalized(name) = << >> THEN NULL
        ELSE IF exact # {} THEN FirstOf(pool, exact)
        ELSE IF Cardinality(candidates) = 1 THEN FirstOf(pool, candidates)
        ELSE IF tokens # {} THEN FirstOf(pool, tokens)
        ELSE NULL

\* a matching that offers every name the whole list of active drivers
RECURSIVE MatchNamesNoExclusion(_, _, _, _, _)
MatchNamesNoExclusion(tbl, f, pool, k, matched) ==
    IF k > Len(f) THEN << >>
    ELSE <<FuzzyMatchDriver(tbl, f[k], pool)>>
         \o MatchNamesNoExclusion(tbl, f, pool, k + 1, matched)

\* the matching of _bulk_assign_by_name for names k.. of file f: each name is
\* matched against the drivers of list pool that are not in matched_drivers
RECURSIVE MatchNames(_, _, _, _, _)
MatchNames(tbl, f, pool, k, matched) ==
    IF k > Len(f) THEN << >>
    ELSE LET available == SelectSeq(pool, LAMBDA r : r \notin matched)
             drv == FuzzyMatchDriver(tbl, f[k], available)
         IN  <<drv>> \o MatchNames(tbl, f, pool, k + 1,
                                   IF drv = NULL THEN matched
                                   ELSE matched \cup {drv})

\* POST /api/assignments/bulk-upload-drivers with a Driver Route file that
\* lists the names f, the query for the active drivers answering in order pool
BulkUploadRoute(d, f, pool) ==
    /\ pool \in Orders({r \in DOMAIN drivers : drivers[r].active})
    /\ BulkAssignByName(d, MatchNames(drivers, f, pool, 1, {}))

\* ---------------------------------------------------------------- roles

\* auth.py ROLE_HIERARCHY.get(role, 0); "any" stands for a route that asks
\* for an authenticated user and no role
RoleLevel(role) ==
    CASE role = "admin" -> 3
      [] role = "operator" -> 2
      [] role = "readonly" -> 1
      [] OTHER -> 0

\* routes/auth.py VALID_ROLES
VALID_ROLES == {"admin", "operator", "readonly"}

\* auth.get_current_user for a token that names account u
GetCurrentUser(tbl, u) ==
    IF u \notin DOMAIN tbl \/ ~tbl[u].active THEN "unauthenticated" ELSE "ok"

\* a dependency that asks for an authenticated user and compares no level
RequireRoleAuthOnly(tbl, u, min_role) == GetCurrentUser(tbl, u)

\* auth.require_role(min_role) for a token that names account u
RequireRole(tbl, u, min_role) ==
    IF GetCurrentUser(tbl, u) # "ok" THEN GetCurrentUser(tbl, u)
    ELSE IF RoleLevel(tbl[u].role) < RoleLevel(min_role) THEN "forbidden"
    ELSE "ok"

\* the minimum role each route asks for
MinRole ==
    [list |-> "any", create |-> "operator", update |-> "operator",
     delete |-> "operator", pair |-> "operator", unpair |-> "operator",
     toggle_van |-> "admin", upload_vans |-> "admin",
     create_user |-> "admin", update_user |-> "admin"]

\* a route with its dependency: the handler runs only if the dependency
\* returns the user, otherwise the request ends with 401 or 403
Authorized(u, op, Handler) ==
    IF RequireRole(users, u, MinRole[op]) = "ok" THEN Handler
    ELSE /\ Fail(op, RequireRole(users, u, MinRole[op]))
         /\ UNCHANGED <<preassign, vans, drivers, users>>

\* GET /api/assignments
ListAssignments ==
    /\ resp' = Response("list", 200, "listed", NULL, NULL)
    /\ UNCHANGED <<rows, preassign, vans, drivers, users>>

\* POST /api/vans/{van_id}/toggle
ToggleVan(v) ==
    /\ IF v \notin DOMAIN vans
       THEN vans' = vans /\ resp' = Response("toggle_van", 200, "no_such_van", NULL, NULL)
       ELSE /\ vans' = [vans EXCEPT ![v].active = ~@]
            /\ resp' = Response("toggle_van", 200, "toggled", v, NULL)
    /\ UNCHANGED <<rows, preassign, drivers, users>>

\* POST /api/upload/vans with a CSV file of the codes o
UploadVans(o) ==
    /\ vans' = Import(vans, o)
    /\ resp' = Response("upload_vans", 200, "uploaded", NULL, NULL)
    /\ UNCHANGED <<rows, preassign, drivers, users>>

\* POST /api/auth/users
CreateUser(name, role) ==
    /\ IF role \notin VALID_ROLES
       THEN users' = users /\ Fail("create_user", "bad_role")
       ELSE IF name \in DOMAIN users
       THEN users' = users /\ Fail("create_user", "username_taken")
       ELSE /\ users' = [x \in DOMAIN users \cup {name} |->
                            IF x = name THEN [role |-> role, active |-> TRUE]
                            ELSE users[x]]
            /\ rows' = rows
            /\ resp' = Response("create_user", 201, "created", name, NULL)
    /\ UNCHANGED <<preassign, vans, drivers>>

\* PUT /api/auth/users/{user_id}; "none" stands for a field left out
UpdateUser(target, role, active) ==
    /\ IF target \notin DOMAIN users
       THEN users' = users /\ Fail("update_user", "not_found")
       ELSE IF role # "none" /\ role \notin VALID_ROLES
       THEN users' = users /\ Fail("update_user", "bad_role")
       ELSE /\ users' = [users EXCEPT ![target] =
                            [role |-> IF role # "none" THEN role ELSE @.role,
                             active |-> IF active # "none" THEN active = "true"
                                        ELSE @.active]]
            /\ rows' = rows
            /\ resp' = Response("update_user", 200, "updated", target, NULL)
    /\ UNCHANGED <<preassign, vans, drivers>>

\* ---------------------------------------------------------------- Spec

\* a request slot: where its handler stands, the request body, the rows its
\* transaction has flushed and not committed, the van the auto-fill chose,
\* and how the request ended; for a pair request the two ids of the body, the
\* rows its session has loaded and the ids it has deleted and not committed
Idle == [pc |-> "idle", date |-> NULL, van |-> NULL, driver |-> NULL,
         notes |-> NoNotes, pend |-> {}, fill |-> NULL, out |-> "none",
         reqA |-> NULL, reqB |-> NULL, read |-> {}, del |-> {}]

\* the master data: every van and driver active, nothing in flight
MasterData ==
    /\ vans = [v \in VanIds |-> [code |-> v, active |-> TRUE]]
    /\ drivers = [r \in DriverIds |-> [code |-> r, active |-> TRUE]]
    /\ resp = Response("none", 0, "none", NULL, NULL)
    /\ procs = [p \in Procs |-> Idle]
    /\ audit = {}
    /\ writes = {}
    /\ users = DefaultUsers

\* the tables once the master data and one preassignment (driver 1 -> van 1)
\* are loaded, before any assignment exists
Loaded ==
    /\ preassign = {Preassignment(1, 1, 1)}
    /\ MasterData

\* the same master data, either every driver preassigned to van 1 or driver 1
\* alone, and either no assignment yet or van 1 with driver 1 on the other date
InitBulk ==
    /\ rows \in {{}, {DailyAssignment(1, 2, 1, 1, NoNotes)}}
    /\ preassign \in {{Preassignment(r, r, 1) : r \in DriverIds},
                      {Preassignment(1, 1, 1)}}
    /\ MasterData

Init == rows = {} /\ Loaded

VanFiles == Orders(VanIds)
DriverFiles == Orders(DriverIds)

\* the requests for single assignments, on dates D with notes N
Lifecycle(D, N) ==
    \/ \E d \in D, v \in VanIds \cup {NULL, MissingVan},
          r \in DriverIds \cup {NULL, MissingDriver}, n \in N :
          CreateAssignment(d, v, r, n)
    \/ \E i \in RowIds, d \in D, v \in VanIds \cup {NULL},
          r \in DriverIds \cup {NULL}, n \in N :
          UpdateAssignment(i, d, v, r, n)
    \/ \E i \in RowIds : DeleteAssignment(i)
    \/ \E i, j \in RowIds : PairAssignments(i, j)
    \/ \E i \in RowIds : UnpairAssignment(i)

Next ==
    /\ UNCHANGED <<procs, audit, writes, users>>
    /\ \/ Lifecycle(Dates, {NoNotes})
       \/ \E d \in Dates, o \in VanFiles : BulkUploadVans(d, o)
       \/ \E d \in Dates, o \in DriverFiles : BulkUploadDrivers(d, o)

Spec == Init /\ [][Next]_vars

\* ---------------------------------------------------------------- SpecBulk
\* the bulk uploads for one date with any file: codes of known, inactive and
\* unknown vans, ids of known and inactive drivers, in any order, and names that
\* match a driver or none

AnyVanFiles == UNION {Orders(S) : S \in SUBSET (1..NumVans + 1)}

AnyDriverFiles == UNION {Orders(S) : S \in SUBSET DriverIds}

\* what the matcher returns name by name: no driver is matched twice
NameFiles ==
    UNION {{m \in [1..n -> DriverIds \cup {NULL}] :
               \A x, y \in 1..n : (x # y /\ m[x] # NULL) => m[x] # m[y]} :
           n \in 0..NumDrivers}

NextBulk ==
    /\ UNCHANGED <<procs, audit, writes, users>>
    /\ \/ \E o \in AnyVanFiles : BulkUploadVans(1, o)
       \/ \E o \in AnyDriverFiles : BulkUploadDrivers(1, o)
       \/ \E m \in NameFiles : BulkAssignByName(1, m)
       \/ \E i \in RowIds : DeleteAssignment(i)

SpecBulk == InitBulk /\ [][NextBulk]_vars

\* ---------------------------------------------------------------- SpecMatch
\* one call of the matcher: any two registered names, any file name or the
\* empty one, and the drivers in any list order

\* the drivers table with the names nm
NamedDrivers(nm) ==
    [r \in DriverIds |-> [code |-> r, active |-> TRUE, name |-> nm[r]]]

\* what a call of the matcher was given and what it returned
MatchResult(name, pool, r) ==
    [op |-> "match", status |-> 0, detail |-> "none", id |-> NULL, id2 |-> NULL,
     created |-> 0, skipped |-> 0, name |-> name, pool |-> pool, result |-> r]

FuzzyMatch(name, pool) ==
    /\ resp.op = "none"
    /\ resp' = MatchResult(name, pool, FuzzyMatchDriver(drivers, name, pool))
    /\ UNCHANGED <<rows, preassign, vans, drivers>>

InitMatch ==
    /\ rows = {}
    /\ vans = [v \in VanIds |-> [code |-> v, active |-> TRUE]]
    /\ \E nm \in [DriverIds -> Names] : drivers = NamedDrivers(nm)
    /\ resp = Response("none", 0, "none", NULL, NULL)
    /\ preassign = {}
    /\ procs = [p \in Procs |-> Idle]
    /\ audit = {}
    /\ writes = {}
    /\ users = DefaultUsers

NextMatch ==
    /\ UNCHANGED <<procs, audit, writes, users>>
    /\ \E name \in Names \cup {EmptyName}, pool \in Orders(DriverIds) :
          FuzzyMatch(name, pool)

SpecMatch == InitMatch /\ [][NextMatch]_vars

\* ---------------------------------------------------------------- SpecRoute
\* Driver Route uploads for one date: any two registered names and any file
\* of up to two names out of five (a, aa, a b, aa b, b a), and deletes in
\* between

RouteNames ==
    {Name(t, FALSE) : t \in {<< <<"a">> >>, << <<"a", "a">> >>,
                             << <<"a">>, <<"b">> >>, << <<"a", "a">>, <<"b">> >>,
                             << <<"b">>, <<"a">> >>}}

RouteFiles == UNION {[1..n -> RouteNames] : n \in 0..NumDrivers}

InitRoute ==
    /\ rows = {}
    /\ vans = [v \in VanIds |-> [code |-> v, active |-> TRUE]]
    /\ \E nm \in [DriverIds -> RouteNames] : drivers = NamedDrivers(nm)
    /\ resp = Response("none", 0, "none", NULL, NULL)
    /\ preassign = {Preassignment(1, 1, 1)}
    /\ procs = [p \in Procs |-> Idle]
    /\ audit = {}
    /\ writes = {}
    /\ users = DefaultUsers

NextRoute ==
    /\ UNCHANGED <<procs, audit, writes, users>>
    /\ \/ \E f \in RouteFiles, pool \in Orders(DriverIds) :
             BulkUploadRoute(1, f, pool)
       \/ \E i \in RowIds : DeleteAssignment(i)

SpecRoute == InitRoute /\ [][NextRoute]_vars

\* ---------------------------------------------------------------- SpecAuth
\* Requests of every account, known or not, to the routes behind a role: the
\* assignment routes for van 1 and driver 2 on one date, the van toggle and
\* upload, and the user administration, in which the admin creates account 5,
\* switches the operator's account off and on and promotes or demotes the
\* readonly account

AuthCreates == {<<1, NULL>>, <<NULL, 2>>}

UserUpdates ==
    {<<2, "none", "false">>, <<2, "none", "true">>, <<3, "operator", "none">>,
     <<3, "readonly", "none">>, <<3, "guest", "none">>,
     <<MaxUsers + 1, "none", "false">>}

\* the request of account u to route op, with any of the bodies drawn
Request(u, op) ==
    \/ op = "list" /\ Authorized(u, "list", ListAssignments)
    \/ /\ op = "create"
       /\ \E a \in AuthCreates :
             Authorized(u, "create", CreateAssignment(1, a[1], a[2], NoNotes)
                                     /\ UNCHANGED users)
    \/ /\ op = "update"
       /\ \E i \in RowIds :
             Authorized(u, "update", UpdateAssignment(i, 1, 1, 2, NoNotes)
                                     /\ UNCHANGED users)
    \/ /\ op = "delete"
       /\ \E i \in RowIds :
             Authorized(u, "delete", DeleteAssignment(i) /\ UNCHANGED users)
    \/ /\ op = "pair"
       /\ \E i, j \in RowIds :
             Authorized(u, "pair", PairAssignments(i, j) /\ UNCHANGED users)
    \/ /\ op = "unpair"
       /\ \E i \in RowIds :
             Authorized(u, "unpair", UnpairAssignment(i) /\ UNCHANGED users)
    \/ /\ op = "toggle_van"
       /\ \E v \in VanIds : Authorized(u, "toggle_van", ToggleVan(v))
    \/ /\ op = "upload_vans"
       /\ \E o \in VanFiles : Authorized(u, "upload_vans", UploadVans(o))
    \/ /\ op = "create_user"
       /\ \E role \in {"readonly", "guest"} :
             Authorized(u, "create_user", CreateUser(MaxUsers, role))
    \/ /\ op = "update_user"
       /\ \E d \in UserUpdates :
             Authorized(u, "update_user", UpdateUser(d[1], d[2], d[3]))

NextAuth ==
    /\ UNCHANGED <<procs, audit, writes>>
    /\ \E u \in UserIds, op \in DOMAIN MinRole : Request(u, op)

SpecAuth == Init /\ [][NextAuth]_vars

\* ---------------------------------------------------------------- SpecNotes
\* the same handlers on one date, with notes on the rows

NextNotes == UNCHANGED <<procs, audit, writes, users>> /\ Lifecycle({1}, NoteVals)

SpecNotes == Init /\ [][NextNotes]_vars

\* ---------------------------------------------------------------- SpecConc
\* The store under concurrent transactions: a query sees the committed rows
\* and the transaction's own flushed rows; a flushed write that collides with
\* a committed row raises IntegrityError; one that collides with a row another
\* transaction has flushed and not yet committed waits for that transaction.

Pending == UNION {procs[p].pend : p \in Procs}

\* the rows a query of p's session returns
View(p) == rows \cup procs[p].pend

\* the write of row a by p has to wait for another transaction
Blocked(p, a) ==
    \E q \in Procs \ {p} : \E b \in procs[q].pend : ~UniqueOK({a, b})

Finish(p, outcome) ==
    procs' = [procs EXCEPT ![p].pc = "done", ![p].pend = {}, ![p].out = outcome]

\* the request arrives; pydantic validates the body before the handler runs
ConcBegin(p, d, v, r, n) ==
    /\ procs[p].pc = "idle"
    /\ IF ~AtLeastOne(v, r) THEN Finish(p, "validation")
       ELSE procs' = [procs EXCEPT ![p].pc = "van_check", ![p].date = d,
                          ![p].van = v, ![p].driver = r, ![p].notes = n]
    /\ UNCHANGED rows

\* create_assignment, the van block
ConcVanCheck(p) ==
    LET chk == CreateVanCheck(View(p), procs[p].date, procs[p].van)
    IN  /\ procs[p].pc = "van_check"
        /\ IF chk # "ok" THEN Finish(p, chk)
           ELSE procs' = [procs EXCEPT ![p].pc = "driver_check"]
        /\ UNCHANGED rows

\* create_assignment, the driver block
ConcDriverCheck(p) ==
    LET chk == CreateDriverCheck(View(p), procs[p].date, procs[p].driver)
    IN  /\ procs[p].pc = "driver_check"
        /\ IF chk # "ok" THEN Finish(p, chk)
           ELSE procs' = [procs EXCEPT ![p].pc = "flush"]
        /\ UNCHANGED rows

\* db.add(assignment); db.flush() with its except IntegrityError
ConcFlush(p) ==
    LET a == DailyAssignment(NewId(rows \cup Pending), procs[p].date,
                             procs[p].van, procs[p].driver, procs[p].notes)
    IN  /\ procs[p].pc = "flush"
        /\ a.id <= MaxId
        /\ ~Blocked(p, a)
        /\ IF ~UniqueOK(rows \cup {a}) THEN Finish(p, "integrity")
           ELSE procs' = [procs EXCEPT ![p].pc = "autofill", ![p].pend = {a}]
        /\ UNCHANGED rows

\* the preassignment lookup and the van_conflict query of the auto-fill
ConcAutoFill(p) ==
    LET a == CHOOSE x \in procs[p].pend : TRUE
        fv == AutoFillVan(View(p), a)
    IN  /\ procs[p].pc = "autofill"
        /\ procs' = [procs EXCEPT ![p].pc = IF fv = NULL THEN "commit" ELSE "fill_flush",
                                  ![p].fill = fv]
        /\ UNCHANGED rows

\* assignment.van_id = preassign.van_id; db.flush(): no except clause here, an
\* IntegrityError leaves the handler as an unhandled exception
ConcFillFlush(p) ==
    LET a == CHOOSE x \in procs[p].pend : TRUE
        b == [a EXCEPT !.van = procs[p].fill]
    IN  /\ procs[p].pc = "fill_flush"
        /\ ~Blocked(p, b)
        /\ IF ~UniqueOK(rows \cup {b}) THEN Finish(p, "crash")
           ELSE procs' = [procs EXCEPT ![p].pc = "commit", ![p].pend = {b}]
        /\ UNCHANGED rows

\* log_action(...); db.commit()
ConcCommit(p) ==
    /\ procs[p].pc = "commit"
    /\ rows' = rows \cup procs[p].pend
    /\ Finish(p, "created")

InitConc ==
    /\ rows \in {{}, {DailyAssignment(1, 1, NumVans, NULL, NoNotes)}}
    /\ Loaded

NextConc ==
    /\ UNCHANGED <<preassign, vans, drivers, resp, audit, writes, users>>
    /\ \E p \in Procs :
          \/ \E d \in Dates, v \in VanIds \cup {NULL, MissingVan},
                r \in DriverIds \cup {NULL, MissingDriver} :
                ConcBegin(p, d, v, r, NoNotes)
          \/ ConcVanCheck(p)
          \/ ConcDriverCheck(p)
          \/ ConcFlush(p)
          \/ ConcAutoFill(p)
          \/ ConcFillFlush(p)
          \/ ConcCommit(p)

SpecConc == InitConc /\ [][NextConc]_vars

\* ---------------------------------------------------------------- SpecPair
\* pair_assignments as a transaction of its own, next to concurrent creates
\* and pairs.  A DELETE or UPDATE of a row waits while another transaction
\* holds an uncommitted write of that row; a DELETE that matches no row is
\* not an error (the ORM warns), an UPDATE that matches no row is.

PairFinish(p, outcome) ==
    procs' = [procs EXCEPT ![p].pc = "done", ![p].pend = {}, ![p].del = {},
                           ![p].out = outcome]

\* another transaction holds an uncommitted write of row i
RowLocked(p, i) ==
    \E q \in Procs \ {p} : i \in procs[q].del \/ HasRow(procs[q].pend, i)

\* writing row a has to wait: it collides with a row written by another open
\* transaction, or with a committed row another open transaction has deleted
SlotLocked(p, a) ==
    \/ Blocked(p, a)
    \/ \E q \in Procs \ {p} : \E b \in rows : b.id \in procs[q].del /\ ~UniqueOK({a, b})

\* the driver row is loaded and checked
PairReadA(p, i, j) ==
    LET chk == PairCheck(View(p), i, i)
    IN  /\ procs[p].pc = "idle"
        /\ IF chk \in {"not_found", "no_driver", "has_van"}
           THEN procs' = [procs EXCEPT ![p].pc = "done", ![p].out = chk,
                                      ![p].reqA = i, ![p].reqB = j]
           ELSE procs' = [procs EXCEPT ![p].pc = "pair_read_b",
                                      ![p].reqA = i, ![p].reqB = j,
                                      ![p].read = {RowOf(View(p), i)}]
        /\ UNCHANGED rows

\* the van row is loaded and checked, the two dates are compared
PairReadB(p) ==
    LET i == procs[p].reqA
        j == procs[p].reqB
        da == RowOf(procs[p].read, i)
        chk == PairCheck({da} \cup {b \in View(p) : b.id = j /\ j # i}, i, j)
    IN  /\ procs[p].pc = "pair_read_b"
        /\ IF chk # "ok" THEN PairFinish(p, chk)
           ELSE procs' = [procs EXCEPT ![p].pc = "pair_delete",
                                      ![p].read = @ \cup {RowOf(View(p), j)}]
        /\ UNCHANGED rows

\* db.delete(van_asgn); db.flush()
PairDelete(p) ==
    LET j == procs[p].reqB
    IN  /\ procs[p].pc = "pair_delete"
        /\ ~RowLocked(p, j)
        /\ procs' = [procs EXCEPT ![p].pc = "pair_write",
                                  ![p].del = IF HasRow(rows, j) THEN {j} ELSE {}]
        /\ UNCHANGED rows

\* the last flush of a pair without its except clause: a rejected write
\* leaves the handler as an unhandled exception
PairWriteNoExcept(p) ==
    LET i == procs[p].reqA
        da == RowOf(procs[p].read, i)
        va == RowOf(procs[p].read, procs[p].reqB)
        cur == RowOf(rows, i)
        new == [cur EXCEPT !.van = Paired(da, va).van,
                           !.notes = IF Paired(da, va).notes = da.notes
                                     THEN @ ELSE Paired(da, va).notes]
        others == {a \in rows : a.id # i /\ a.id \notin procs[p].del}
    IN  /\ procs[p].pc = "pair_write"
        /\ ~RowLocked(p, i)
        /\ IF ~HasRow(rows, i) THEN PairFinish(p, "crash")
           ELSE /\ ~SlotLocked(p, new)
                /\ IF ~UniqueOK(others \cup {new}) THEN PairFinish(p, "crash")
                   ELSE procs' = [procs EXCEPT ![p].pc = "pair_commit",
                                              ![p].pend = {new}]
        /\ UNCHANGED rows

\* driver_asgn.van_id = target_van_id; notes; db.flush() with its except
\* IntegrityError: the UPDATE sets the changed columns on the stored row
PairWrite(p) ==
    LET i == procs[p].reqA
        da == RowOf(procs[p].read, i)
        va == RowOf(procs[p].read, procs[p].reqB)
        cur == RowOf(rows, i)
        new == [cur EXCEPT !.van = Paired(da, va).van,
                           !.notes = IF Paired(da, va).notes = da.notes
                                     THEN @ ELSE Paired(da, va).notes]
        others == {a \in rows : a.id # i /\ a.id \notin procs[p].del}
    IN  /\ procs[p].pc = "pair_write"
        /\ ~RowLocked(p, i)
        /\ IF ~HasRow(rows, i) THEN PairFinish(p, "crash")
           ELSE /\ ~SlotLocked(p, new)
                /\ IF ~UniqueOK(others \cup {new}) THEN PairFinish(p, "integrity")
                   ELSE procs' = [procs EXCEPT ![p].pc = "pair_commit",
                                              ![p].pend = {new}]
        /\ UNCHANGED rows

\* log_action(...); db.commit()
PairCommit(p) ==
    /\ procs[p].pc = "pair_commit"
    /\ rows' = {a \in rows : a.id \notin procs[p].del /\ ~HasRow(procs[p].pend, a.id)}
                   \cup procs[p].pend
    /\ PairFinish(p, "paired")

\* one date with a driver-only row of driver 1, a van-only row of van 1 and,
\* in the second table, a driver-only row of driver 2
InitPair ==
    /\ rows \in {{DailyAssignment(1, 1, NULL, 1, NoNotes),
                  DailyAssignment(2, 1, 1, NULL, NoNotes)},
                 {DailyAssignment(1, 1, NULL, 1, NoNotes),
                  DailyAssignment(2, 1, 1, NULL, NoNotes),
                  DailyAssignment(3, 1, NULL, 2, NoNotes)}}
    /\ Loaded

NextPair ==
    /\ UNCHANGED <<preassign, vans, drivers, resp, audit, writes, users>>
    /\ \E p \in Procs :
          \/ \E d \in Dates, v \in VanIds \cup {NULL, MissingVan},
                r \in DriverIds \cup {NULL, MissingDriver} :
                ConcBegin(p, d, v, r, NoNotes)
          \/ ConcVanCheck(p)
          \/ ConcDriverCheck(p)
          \/ ConcFlush(p)
          \/ ConcAutoFill(p)
          \/ ConcFillFlush(p)
          \/ ConcCommit(p)
          \/ \E i, j \in RowIds : PairReadA(p, i, j)
          \/ PairReadB(p)
          \/ PairDelete(p)
          \/ PairWrite(p)
          \/ PairCommit(p)

SpecPair == InitPair /\ [][NextPair]_vars

\* ---------------------------------------------------------------- SpecAudit
\* The handlers with their audit entry and their commits.  log_action adds
\* the entry to the session and flushes it; it is stored by the next
\* db.commit().  A request in flight can fail at any store call: what its
\* session has not committed is then discarded.

\* one db.commit() that stores the row changes and the audit entry of p
CommitWithEntry(p) == audit' = audit \cup {p} /\ writes' = writes \cup {p}

\* create_assignment and pair_assignments, step by step
AuditedSteps(p) ==
    \/ /\ \/ \E d \in Dates, v \in VanIds \cup {NULL}, r \in DriverIds \cup {NULL} :
                ConcBegin(p, d, v, r, NoNotes)
          \/ ConcVanCheck(p)
          \/ ConcDriverCheck(p)
          \/ ConcFlush(p)
          \/ ConcAutoFill(p)
          \/ ConcFillFlush(p)
          \/ \E i, j \in RowIds : PairReadA(p, i, j)
          \/ PairReadB(p)
          \/ PairDelete(p)
          \/ PairWrite(p)
       /\ UNCHANGED <<vans, drivers, resp, audit, writes>>
    \/ /\ ConcCommit(p) \/ PairCommit(p)
       /\ CommitWithEntry(p)
       /\ UNCHANGED <<vans, drivers, resp>>

\* no transaction holds uncommitted writes (the handlers taken in one step
\* run between the writes of the stepwise ones, not in the middle of them)
NoneOpen == \A q \in Procs : procs[q].pend = {} /\ procs[q].del = {}

\* update_assignment, unpair_assignment, delete_assignment: the row changes
\* and log_action precede the handler's only db.commit()
AuditedHandlers(p) ==
    /\ procs[p].pc = "idle"
    /\ NoneOpen
    /\ \/ \E i \in RowIds, d \in Dates, v \in VanIds \cup {NULL},
            r \in DriverIds \cup {NULL} : UpdateAssignment(i, d, v, r, NoNotes)
       \/ \E i \in RowIds : UnpairAssignment(i)
       \/ \E i \in RowIds : DeleteAssignment(i)
    /\ procs' = [procs EXCEPT ![p].pc = "done", ![p].out = resp'.detail]
    /\ IF resp'.status = 200 THEN CommitWithEntry(p)
       ELSE UNCHANGED <<audit, writes>>

\* bulk_upload_vans up to its first db.commit(): the import and the new rows
BulkVansRows(p, d, o) ==
    LET tbl == Import(vans, o)
        existing == {a.van : a \in {b \in rows : b.date = d /\ b.van # NULL}}
        st == VanLoop(tbl, existing, d, o, 1,
                      [rows |-> rows, created |-> 0, skipped |-> 0])
    IN  /\ procs[p].pc = "idle"
        /\ NoneOpen
        /\ \A a \in st.rows : a.id <= MaxId
        /\ vans' = tbl
        /\ rows' = st.rows
        /\ writes' = writes \cup {p}
        /\ procs' = [procs EXCEPT ![p].pc = "bulk_log"]
        /\ UNCHANGED <<drivers, resp, audit>>

\* bulk_upload_drivers (employee ids) up to its first db.commit()
BulkDriversRows(p, d, o) ==
    LET tbl == Import(drivers, o)
        existing == {a.driver : a \in {b \in rows : b.date = d /\ b.driver # NULL}}
        vanIds == {a.van : a \in {b \in rows : b.date = d /\ b.van # NULL}}
        st == DriverLoop(tbl, existing, d, o, 1,
                         [rows |-> rows, created |-> 0, skipped |-> 0,
                          vans |-> vanIds])
    IN  /\ procs[p].pc = "idle"
        /\ NoneOpen
        /\ \A a \in st.rows : a.id <= MaxId
        /\ drivers' = tbl
        /\ rows' = st.rows
        /\ writes' = writes \cup {p}
        /\ procs' = [procs EXCEPT ![p].pc = "bulk_log"]
        /\ UNCHANGED <<vans, resp, audit>>

\* the end of a bulk upload: log_action(...) and the second db.commit()
BulkLog(p) ==
    /\ procs[p].pc = "bulk_log"
    /\ audit' = audit \cup {p}
    /\ procs' = [procs EXCEPT ![p].pc = "done", ![p].out = "uploaded"]
    /\ UNCHANGED <<rows, vans, drivers, resp, writes>>

\* a store call of a request in flight raises, or the request is cut off:
\* the session closes and its uncommitted work is gone
Abort(p) ==
    /\ procs[p].pc \notin {"idle", "done"}
    /\ PairFinish(p, "aborted")
    /\ UNCHANGED <<rows, vans, drivers, resp, audit, writes>>

NextAudit ==
    /\ UNCHANGED <<preassign, users>>
    /\ \E p \in Procs :
          \/ AuditedSteps(p)
          \/ AuditedHandlers(p)
          \/ \E d \in Dates, o \in VanFiles : BulkVansRows(p, d, o)
          \/ \E d \in Dates, o \in DriverFiles : BulkDriversRows(p, d, o)
          \/ BulkLog(p)
          \/ Abort(p)

SpecAudit == InitPair /\ [][NextAudit]_vars

\* ---------------------------------------------------------------- properties

CreateVanInputs == VanIds \cup {NULL, MissingVan}
CreateDriverInputs == DriverIds \cup {NULL, MissingDriver}

\* C1: for every date and van at most one assignment row holds that van on
\* that date, whatever operations ran; and a create naming a van that a row
\* already holds on its date answers 409 and leaves the table as it was.
C1_OneRowPerDateVan ==
    \A a, b \in rows :
        (a.date = b.date /\ a.van = b.van /\ a.van # NULL) => a = b

C1_CreateOnTakenVan ==
    \A d \in Dates, v \in VanIds, r \in CreateDriverInputs, n \in NoteVals :
        (/\ resp'.op = "create"
         /\ \E a \in rows : a.date = d /\ a.van = v
         /\ CreateAssignment(d, v, r, n))
        => (resp'.status = 409 /\ rows' = rows)

\* C1: both parts, uniqueness per (date, van) and the 409 of a create
C1_Theorem == [](C1_OneRowPerDateVan) /\ [][C1_CreateOnTakenVan]_vars

C1_Witness ==
    /\ resp.op = "create" /\ resp.status = 409 /\ resp.detail = "van_conflict"
    /\ \E a, b \in rows : a.date = b.date /\ a.van # NULL /\ b.van # NULL /\ a # b

\* C2 (as stated): for every date and driver at most one assignment row,
\* paired or driver-only, holds that driver on that date; and a create naming
\* a driver who already has a row on its date answers 409 and adds no row.
C2_OneRowPerDateDriver ==
    \A a, b \in rows :
        (a.date = b.date /\ a.driver = b.driver /\ a.driver # NULL) => a = b

C2_CreateOnTakenDriver_Stated ==
    \A d \in Dates, v \in CreateVanInputs, r \in DriverIds, n \in NoteVals :
        (/\ resp'.op = "create"
         /\ \E a \in rows : a.date = d /\ a.driver = r
         /\ CreateAssignment(d, v, r, n))
        => (resp'.status = 409 /\ rows' = rows)

\* C2 as stated: uniqueness per (date, driver) and a 409 in every case
C2_Stated == [](C2_OneRowPerDateDriver) /\ [][C2_CreateOnTakenDriver_Stated]_vars

\* C2 (amended): the same uniqueness; a create naming a driver who already
\* has a row on its date adds no row and answers 409, except that it answers
\* 404 when it also names a van that does not exist (the van is looked up
\* before the driver is checked).
C2_CreateOnTakenDriver ==
    \A d \in Dates, v \in CreateVanInputs, r \in DriverIds, n \in NoteVals :
        (/\ resp'.op = "create"
         /\ \E a \in rows : a.date = d /\ a.driver = r
         /\ CreateAssignment(d, v, r, n))
        => /\ rows' = rows
           /\ IF v # NULL /\ v \notin DOMAIN vans
              THEN resp'.status = 404 ELSE resp'.status = 409

\* C2 amended: uniqueness per (date, driver) and the 409, or 404, of a create
C2_Theorem == [](C2_OneRowPerDateDriver) /\ [][C2_CreateOnTakenDriver]_vars

C2_Witness ==
    /\ resp.op = "create" /\ resp.status = 409 /\ resp.detail = "driver_conflict"
    /\ \E a, b \in rows : /\ a.date = b.date /\ a # b
                          /\ a.driver # NULL /\ a.van = NULL
                          /\ b.driver # NULL /\ b.van # NULL

\* C3: two concurrent creates that name the same van, or the same driver, on
\* the same date and both get past the handler's own conflict checks: exactly
\* one commits its row, the other answers 409 from the store's rejection (it
\* does not crash), and the committed table never holds both rows.
Done(p) == procs[p].pc = "done"

\* the request reached db.flush(): no validation, lookup or scan stopped it
PassedChecks(p) == procs[p].out \in {"created", "integrity", "crash"}

Collide(p, q) ==
    /\ procs[p].date = procs[q].date
    /\ \/ procs[p].van # NULL /\ procs[p].van = procs[q].van
       \/ procs[p].driver # NULL /\ procs[p].driver = procs[q].driver

C3_Theorem ==
    /\ \A a, b \in rows :
          (a.id # b.id /\ a.date = b.date) =>
              /\ (a.van # NULL => a.van # b.van)
              /\ (a.driver # NULL => a.driver # b.driver)
    /\ \A p, q \in Procs :
          (p # q /\ Done(p) /\ Done(q) /\ Collide(p, q)
           /\ PassedChecks(p) /\ PassedChecks(q))
          => {procs[p].out, procs[q].out} = {"created", "integrity"}

C3_Witness ==
    \E p, q \in Procs :
        /\ Collide(p, q)
        /\ procs[p].out = "created" /\ procs[q].out = "integrity"
        /\ procs[p].van = procs[q].van /\ procs[p].van # NULL

\* C4: a create whose van id and driver id are both null answers 422 and
\* leaves the assignment rows as they were.
C4_Step ==
    \A d \in Dates, n \in NoteVals :
        (resp'.op = "create" /\ CreateAssignment(d, NULL, NULL, n))
        => (resp'.status = 422 /\ rows' = rows)

C4_Theorem == [][C4_Step]_vars

C4_Witness ==
    /\ resp.op = "create" /\ resp.status = 422
    /\ rows # {}

\* C5: when driver D has a preassignment to van V and no row holds V on date
\* X, a successful create of (X, no van, D) persists its row with van V.
C5_Step ==
    \A d \in Dates, r \in DriverIds, n \in NoteVals :
        (/\ resp'.op = "create" /\ resp'.status = 201
         /\ PreassignedVan(r) # NULL
         /\ ~\E a \in rows : a.date = d /\ a.van = PreassignedVan(r)
         /\ CreateAssignment(d, NULL, r, n))
        => \E a \in rows' \ rows :
               /\ a.id = resp'.id /\ a.date = d /\ a.driver = r
               /\ a.van = PreassignedVan(r)

C5_Theorem == [][C5_Step]_vars

C5_Witness ==
    /\ resp.op = "create" /\ resp.detail = "autofilled"
    /\ \E a \in rows : /\ a.id = resp.id /\ a.driver # NULL
                       /\ a.van = PreassignedVan(a.driver)

\* C6 (as stated): when driver D has a preassignment to van V and some row
\* holds V on date X, a create of (X, no van, D) succeeds, its row has no van,
\* and the row holding V is unchanged.
C6_Step_Stated ==
    \A d \in Dates, r \in DriverIds, n \in NoteVals :
        (/\ resp'.op = "create"
         /\ PreassignedVan(r) # NULL
         /\ \E a \in rows : a.date = d /\ a.van = PreassignedVan(r)
         /\ CreateAssignment(d, NULL, r, n))
        => /\ resp'.status = 201
           /\ rows \subseteq rows'
           /\ \E a \in rows' \ rows :
                  a.id = resp'.id /\ a.date = d /\ a.driver = r /\ a.van = NULL

C6_Stated == [][C6_Step_Stated]_vars

\* C6 (amended): the same, for a driver D who has no assignment row on date X
\* yet (a driver who has one gets 409, as every create for a taken driver).
C6_Step ==
    \A d \in Dates, r \in DriverIds, n \in NoteVals :
        (/\ resp'.op = "create"
         /\ PreassignedVan(r) # NULL
         /\ \E a \in rows : a.date = d /\ a.van = PreassignedVan(r)
         /\ ~\E a \in rows : a.date = d /\ a.driver = r
         /\ CreateAssignment(d, NULL, r, n))
        => /\ resp'.status = 201
           /\ rows \subseteq rows'
           /\ rows' \ rows = {[id |-> resp'.id, date |-> d, van |-> NULL,
                               driver |-> r, notes |-> n]}

C6_Theorem == [][C6_Step]_vars

C6_Witness ==
    /\ resp.op = "create" /\ resp.status = 201
    /\ \E a, b \in rows :
           /\ a.id = resp.id /\ a.van = NULL /\ a.driver # NULL
           /\ PreassignedVan(a.driver) # NULL
           /\ b.date = a.date /\ b.van = PreassignedVan(a.driver)

\* C7: unpairing the row a successful pair just returned succeeds and leaves,
\* on that date, exactly one row for the driver, which has no van, and exactly
\* one row for the van, which has no driver: no paired row for either.
C7_Step ==
    (/\ resp.op = "pair" /\ resp.status = 200
     /\ resp'.op = "unpair"
     /\ UnpairAssignment(resp.id))
    => LET a == CHOOSE x \in rows : x.id = resp.id
           ofDriver == {x \in rows' : x.date = a.date /\ x.driver = a.driver}
           ofVan == {x \in rows' : x.date = a.date /\ x.van = a.van}
       IN  /\ a.van # NULL /\ a.driver # NULL
           /\ resp'.status = 200
           /\ Cardinality(ofDriver) = 1 /\ \A x \in ofDriver : x.van = NULL
           /\ Cardinality(ofVan) = 1 /\ \A x \in ofVan : x.driver = NULL

C7_Theorem == [][C7_Step]_vars

C7_Witness ==
    /\ resp.op = "pair" /\ resp.status = 200
    /\ ENABLED (UnpairAssignment(resp.id) /\ resp'.status = 200)

\* C8: a successful pair of driver-only row A and van-only row B deletes B,
\* puts B's van on A (same id, date and driver), returns A, leaves one row
\* fewer on that date and every other row as it was.
C8_Step ==
    \A i, j \in RowIds :
        (/\ resp'.op = "pair" /\ resp'.status = 200
         /\ PairAssignments(i, j))
        => LET a == CHOOSE x \in rows : x.id = i
               b == CHOOSE x \in rows : x.id = j
               OnDate(rws) == {x \in rws : x.date = a.date}
           IN  /\ a.driver # NULL /\ a.van = NULL
               /\ b.van # NULL /\ b.driver = NULL
               /\ resp'.id = i
               /\ ~\E x \in rows' : x.id = j
               /\ \E x \in rows' : /\ x.id = i /\ x.date = a.date
                                   /\ x.driver = a.driver /\ x.van = b.van
               /\ Cardinality(OnDate(rows')) = Cardinality(OnDate(rows)) - 1
               /\ {x \in rows : x.id \notin {i, j}} = {x \in rows' : x.id # i}

C8_Theorem == [][C8_Step]_vars

C8_Witness ==
    /\ resp.op = "pair" /\ resp.status = 200
    /\ Cardinality(rows) = 2
    /\ \E a \in rows : a.id = resp.id /\ a.van # NULL /\ a.driver # NULL

\* C9: a successful unpair of paired row R adds one van-only row with R's
\* date and van, no driver and no notes, and leaves R with its id, date,
\* driver and notes but no van; it returns R's id and the new row's id,
\* which differ.
C9_Step ==
    \A i \in RowIds :
        (/\ resp'.op = "unpair" /\ resp'.status = 200
         /\ UnpairAssignment(i))
        => LET R == CHOOSE x \in rows : x.id = i
           IN  /\ R.van # NULL /\ R.driver # NULL
               /\ resp'.id = i
               /\ resp'.id2 # i
               /\ ~\E x \in rows : x.id = resp'.id2
               /\ rows' = (rows \ {R}) \cup
                      {[id |-> i, date |-> R.date, van |-> NULL,
                        driver |-> R.driver, notes |-> R.notes],
                       [id |-> resp'.id2, date |-> R.date, van |-> R.van,
                        driver |-> NULL, notes |-> NoNotes]}

C9_Theorem == [][C9_Step]_vars

C9_Witness ==
    /\ resp.op = "unpair" /\ resp.status = 200
    /\ \E a, b \in rows :
           /\ a.id = resp.id /\ a.notes # NoNotes /\ a.van = NULL
           /\ b.id = resp.id2 /\ b.notes = NoNotes /\ b.driver = NULL

\* C10: pairing a driver-only row with a van-only row of another date answers
\* 400 "Assignments must be on the same date" and changes neither row.
C10_Step ==
    \A i, j \in RowIds :
        (/\ resp'.op = "pair"
         /\ \E a, b \in rows :
                /\ a.id = i /\ a.driver # NULL /\ a.van = NULL
                /\ b.id = j /\ b.van # NULL /\ b.driver = NULL
                /\ a.date # b.date
         /\ PairAssignments(i, j))
        => (resp'.status = 400 /\ resp'.detail = "same_date" /\ rows' = rows)

C10_Theorem == [][C10_Step]_vars

C10_Witness ==
    /\ resp.op = "pair" /\ resp.status = 400 /\ resp.detail = "same_date"
    /\ \E a, b \in rows : /\ a.driver # NULL /\ a.van = NULL
                          /\ b.van # NULL /\ b.driver = NULL
                          /\ a.date # b.date

DriverOnly(a) == a.driver # NULL /\ a.van = NULL

VanOnlyRow(a) == a.van # NULL /\ a.driver = NULL

\* C11 (as stated): a pair of existing rows A and B answers 400 and changes
\* no row when A is not driver-only or B is not van-only; a pair answers 404
\* and changes no row when either id names no row.
C11_Step_Stated ==
    \A i, j \in RowIds :
        (resp'.op = "pair" /\ PairAssignments(i, j))
        => /\ (~HasRow(rows, i) \/ ~HasRow(rows, j))
                  => (resp'.status = 404 /\ rows' = rows)
           /\ (/\ HasRow(rows, i) /\ HasRow(rows, j)
               /\ (~DriverOnly(RowOf(rows, i)) \/ ~VanOnlyRow(RowOf(rows, j))))
                  => (resp'.status = 400 /\ rows' = rows)

C11_Stated == [][C11_Step_Stated]_vars

\* C11 (amended): the checks of a pair run in the order A exists, A is
\* driver-only, B exists, B is van-only, and the first that fails decides:
\* 404 when A's id names no row; 400 when A is not driver-only (whether B
\* exists or not); 404 when A is driver-only and B's id names no row; 400
\* when A is driver-only and B is not van-only. No row changes in any case.
C11_Step ==
    \A i, j \in RowIds :
        (resp'.op = "pair" /\ PairAssignments(i, j))
        => /\ ~HasRow(rows, i) => (resp'.status = 404 /\ rows' = rows)
           /\ (HasRow(rows, i) /\ ~DriverOnly(RowOf(rows, i)))
                  => (resp'.status = 400 /\ rows' = rows)
           /\ (HasRow(rows, i) /\ DriverOnly(RowOf(rows, i)) /\ ~HasRow(rows, j))
                  => (resp'.status = 404 /\ rows' = rows)
           /\ (/\ HasRow(rows, i) /\ DriverOnly(RowOf(rows, i))
               /\ HasRow(rows, j) /\ ~VanOnlyRow(RowOf(rows, j)))
                  => (resp'.status = 400 /\ rows' = rows)

C11_Theorem == [][C11_Step]_vars

C11_Witness ==
    /\ resp.op = "pair" /\ resp.status = 400 /\ resp.detail = "has_driver"
    /\ \E a, b \in rows : DriverOnly(a) /\ b.van # NULL /\ b.driver # NULL

\* C12: an unpair of a row whose van or driver is null answers 400, an
\* unpair of an id that names no row answers 404, and in both cases the
\* assignment rows stay exactly as they were.
C12_Step ==
    \A i \in RowIds :
        (resp'.op = "unpair" /\ UnpairAssignment(i))
        => /\ ~HasRow(rows, i) => (resp'.status = 404 /\ rows' = rows)
           /\ (/\ HasRow(rows, i)
               /\ (RowOf(rows, i).van = NULL \/ RowOf(rows, i).driver = NULL))
                  => (resp'.status = 400 /\ rows' = rows)

C12_Theorem == [][C12_Step]_vars

C12_Witness ==
    /\ resp.op = "unpair" /\ resp.status = 400 /\ resp.detail = "not_paired"
    /\ \E a \in rows : DriverOnly(a)
    /\ \E a \in rows : VanOnlyRow(a)

\* C13 (as stated): when the write that puts B's van onto A is rejected by
\* the store, the pair ends with a conflict and, after its rollback, rows A
\* (driver-only) and B (van-only) are both in the table as the pair read them.
C13_Step_Stated ==
    \A p \in Procs :
        (PairWrite(p) /\ procs'[p].pc = "done")
        => LET da == RowOf(procs[p].read, procs[p].reqA)
               va == RowOf(procs[p].read, procs[p].reqB)
           IN  /\ procs'[p].out = "integrity"
               /\ rows' = rows /\ da \in rows' /\ va \in rows'

C13_Step ==
    \A p \in Procs :
        (PairWrite(p) /\ procs'[p].pc = "done")
        => LET da == RowOf(procs[p].read, procs[p].reqA)
               va == RowOf(procs[p].read, procs[p].reqB)
           IN  /\ procs'[p].out = "integrity"
               /\ rows' = rows
               /\ procs'[p].pend = {} /\ procs'[p].del = {}
               /\ da \in rows' /\ DriverOnly(da)
               /\ ~HasRow(rows', va.id)
               /\ \E b \in rows' : b.date = va.date /\ b.van = va.van /\ b.id # da.id

C14_AutoFillNeverFails ==
    \A p \in Procs :
        (/\ Done(p)
         /\ procs[p].van = NULL /\ procs[p].driver \in DriverIds
         /\ procs[p].out \in {"created", "crash"})
        => /\ procs[p].out = "created"
           /\ \E a \in rows : /\ a.date = procs[p].date
                              /\ a.driver = procs[p].driver
                              /\ a.van \in {NULL, PreassignedVan(procs[p].driver)}

\* C15: every operation is atomic with its audit entry: in every reachable
\* state, whatever happened to the requests, the assignment-row changes of a
\* request are committed exactly if its audit entry is committed.
C15_Atomic == \A p \in Procs : (p \in writes) <=> (p \in audit)

\* the vans the codes of file o resolve to once the file is imported
Candidates(o) == {ActiveOfCode(vans', o[k]) : k \in DOMAIN o} \ {NULL}

\* C16: a van upload for a date gives no new row to a candidate van that
\* already has a row on that date and counts it skipped, gives every other
\* resolved candidate exactly one new van-only row and counts it created, and
\* touches no row that existed before
C16_Step ==
    \A o \in AnyVanFiles :
        (resp'.op = "bulk_vans" /\ BulkUploadVans(1, o))
        => LET taken == {v \in Candidates(o) : VanTaken(rows, 1, v)}
               free == Candidates(o) \ taken
               new == rows' \ rows
           IN  /\ rows \subseteq rows'
               /\ \A v \in taken : ~\E a \in new : a.van = v
               /\ \A v \in free :
                      /\ Cardinality({a \in new : a.van = v}) = 1
                      /\ \A a \in new : a.van = v => (a.date = 1 /\ a.driver = NULL)
               /\ \A a \in new : a.van \in free
               /\ resp'.status = 200
               /\ resp'.created = Cardinality(free)
               /\ resp'.skipped = Cardinality(taken)

C16_Theorem == [][C16_Step]_vars

\* an upload that skipped a van with a row and created a row for another
C16_Witness ==
    /\ resp.op = "bulk_vans" /\ resp.status = 200
    /\ resp.created >= 1 /\ resp.skipped >= 1
    /\ \E a, b \in rows : a.id < b.id /\ a.van # NULL /\ b.van # NULL
                          /\ a.van # b.van /\ b.driver = NULL

\* C17: a driver upload for a date, by employee id or by name, is answered
\* 200 and the rows it adds reference every van at most once, and never a van
\* that a row of that date referenced before the upload; two drivers of the
\* batch preassigned to the same van do not both get it
C17_Step ==
    (/\ resp'.op \in {"bulk_drivers", "bulk_names"}
     /\ \/ \E o \in AnyDriverFiles : BulkUploadDrivers(1, o)
        \/ \E m \in NameFiles : BulkAssignByName(1, m))
    => LET new == rows' \ rows
       IN  /\ resp'.status = 200
           /\ rows \subseteq rows'
           /\ \A v \in DOMAIN vans :
                  /\ Cardinality({a \in new : a.van = v}) <= 1
                  /\ VanTaken(rows, 1, v) => ~\E a \in new : a.van = v

C17_Theorem == [][C17_Step]_vars

\* an upload created rows for two drivers preassigned to the same van: one of
\* them holds the van, the other is driver-only
C17_Witness ==
    /\ resp.op \in {"bulk_drivers", "bulk_names"} /\ resp.created = 2
    /\ \E a, b \in rows :
          /\ a.date = 1 /\ b.date = 1 /\ a.driver # NULL /\ b.driver # NULL
          /\ a.driver # b.driver
          /\ PreassignedVan(a.driver) # NULL
          /\ PreassignedVan(a.driver) = PreassignedVan(b.driver)
          /\ a.van = PreassignedVan(a.driver) /\ b.van = NULL

\* C18 (as stated): in a van upload, a code of the file that names no active
\* van when the file arrives gets no row and is counted neither created nor
\* skipped
C18_Step_Stated ==
    \A o \in AnyVanFiles :
        (resp'.op = "bulk_vans" /\ BulkUploadVans(1, o))
        => LET unknown == {k \in DOMAIN o : ActiveOfCode(vans, o[k]) = NULL}
           IN  /\ \A k \in unknown :
                      ~\E a \in rows' \ rows : a.van = IdOfCode(vans', o[k])
               /\ resp'.created + resp'.skipped
                      = Len(o) - Cardinality(unknown)

C18_Step ==
    \A o \in AnyVanFiles :
        (resp'.op = "bulk_vans" /\ BulkUploadVans(1, o))
        => /\ \A k \in DOMAIN o :
                  LET v == ActiveOfCode(vans', o[k])
                  IN  /\ v # NULL
                      /\ VanTaken(rows', 1, v)
                      /\ ~VanTaken(rows, 1, v)
                            => \E a \in rows' \ rows :
                                  a.date = 1 /\ a.van = v /\ a.driver = NULL
           /\ resp'.created + resp'.skipped = Len(o)

C19_Step ==
    /\ \A i \in RowIds :
          (resp'.op = "delete" /\ resp'.status = 200 /\ DeleteAssignment(i))
          => LET a == RowOf(rows, i)
             IN  /\ a.van # NULL => ~VanTaken(rows', a.date, a.van)
                 /\ a.driver # NULL => ~DriverTaken(rows', a.date, a.driver)
    /\ \A d \in Dates, v \in VanIds, r \in DriverIds :
          (/\ resp.op = "delete" /\ resp.status = 200
           /\ resp'.op = "create"
           /\ ~VanTaken(rows, d, v) /\ ~DriverTaken(rows, d, r)
           /\ CreateAssignment(d, v, r, NoNotes))
          => /\ resp'.status = 201
             /\ \E a \in rows' \ rows :
                   a.id = resp'.id /\ a.date = d /\ a.van = v /\ a.driver = r

C19_Theorem == [][C19_Step]_vars

\* right after a delete, with another row still on date 1, a create for a
\* free van and a free driver of date 1 can be answered 201
C19_Witness ==
    /\ resp.op = "delete" /\ resp.status = 200
    /\ \E a \in rows : a.date = 1
    /\ \E v \in VanIds, r \in DriverIds :
          /\ ~VanTaken(rows, 1, v) /\ ~DriverTaken(rows, 1, r)
          /\ ENABLED (CreateAssignment(1, v, r, NoNotes) /\ resp'.status = 201)

\* C20: an update of an existing row with exactly its current date, van and
\* driver is answered 200 and leaves the table as it was, the row's own slots
\* not counting as a conflict; an update of an existing row to a (date, van)
\* or a (date, driver) that a different row holds is answered 409 and leaves
\* every row, the updated one included, unchanged
C20_Step ==
    resp'.op = "update" =>
    \A a \in rows :
        /\ UpdateAssignment(a.id, a.date, a.van, a.driver, NoNotes)
              => /\ resp'.status = 200 /\ resp'.id = a.id
                 /\ \E x \in rows' : /\ x.id = a.id /\ x.date = a.date
                                     /\ x.van = a.van /\ x.driver = a.driver
                 /\ {x \in rows' : x.id # a.id} = rows \ {a}
        /\ \A b \in rows \ {a} :
              /\ b.van # NULL =>
                    \A r \in DriverIds \cup {NULL} :
                        UpdateAssignment(a.id, b.date, b.van, r, NoNotes)
                        => (resp'.status = 409 /\ rows' = rows)
              /\ b.driver # NULL =>
                    \A v \in VanIds \cup {NULL} :
                        UpdateAssignment(a.id, b.date, v, b.driver, NoNotes)
                        => (resp'.status = 409 /\ rows' = rows)

C20_Theorem == [][C20_Step]_vars

\* after a successful update of a paired row that shares its date with
\* another row, saving the row again with the values it holds can be
\* answered 200, and moving it onto the other row's van is answered 409
C20_Witness ==
    /\ resp.op = "update" /\ resp.status = 200 /\ HasRow(rows, resp.id)
    /\ LET a == RowOf(rows, resp.id)
       IN  /\ a.van # NULL /\ a.driver # NULL
           /\ \E b \in rows :
                 /\ b.id # a.id /\ b.date = a.date /\ b.van # NULL
                 /\ ENABLED (/\ UpdateAssignment(a.id, a.date, b.van, a.driver,
                                                 NoNotes)
                             /\ resp'.status = 409)
           /\ ENABLED (/\ UpdateAssignment(a.id, a.date, a.van, a.driver, NoNotes)
                       /\ resp'.status = 200)

\* C21: a successful update leaves the row with exactly the date, van, driver
\* and notes of the request, a null clearing the reference, and changes no
\* other row; in particular a row set to a driver with no van keeps no van
\* even when the driver is preassigned to a van that is free on the date
C21_Step ==
    \A i \in RowIds, d \in Dates, v \in VanIds \cup {NULL},
       r \in DriverIds \cup {NULL}, n \in NoteVals :
        (/\ resp'.op = "update" /\ resp'.status = 200 /\ resp'.id = i
         /\ UpdateAssignment(i, d, v, r, n))
        => /\ DailyAssignment(i, d, v, r, n) \in rows'
           /\ {a \in rows' : a.id # i} = {a \in rows : a.id # i}
           /\ \A a \in rows' : a.id = i => (a.van = v /\ a.driver = r)

C21_Theorem == [][C21_Step]_vars

\* an update has left a row with a driver and no van although the driver's
\* preassigned van is held by no row of that date
C21_Witness ==
    /\ resp.op = "update" /\ resp.status = 200
    /\ \E a \in rows :
          /\ a.id = resp.id /\ a.driver # NULL /\ a.van = NULL
          /\ PreassignedVan(a.driver) # NULL
          /\ ~VanTaken(rows, a.date, PreassignedVan(a.driver))

\* the tiers that single out exactly one driver of the pool for the name
UniqueTiers(tbl, name, pool) ==
    {T \in {"exact", "last_name", "tokens"} :
        Cardinality(CASE T = "exact" -> ExactMatches(tbl, name, pool)
                      [] T = "last_name" -> LastNameMatches(tbl, name, pool)
                      [] OTHER -> TokenMatches(tbl, name, pool)) = 1}

\* C22: the matcher returns a driver only if some tier singles out exactly
\* one driver of the pool; when none does, it returns no driver
C22_UniqueOrNone ==
    (resp.op = "match" /\ Normalized(resp.name) # << >>
     /\ UniqueTiers(drivers, resp.name, resp.pool) = {})
    => resp.result = NULL

\* C26: when no driver of the pool has the file name as its name, letter
\* case aside, and exactly one driver has the same last word and a first word
\* that equals the file name's first word or is prefix-related to it, the
\* matcher returns that driver; when several drivers pass this filter the
\* second tier returns nothing and the result is the third tier's
C26_Tier2 ==
    (resp.op = "match" /\ Normalized(resp.name) # << >>
     /\ ExactMatches(drivers, resp.name, resp.pool) = {})
    => LET candidates == LastNameMatches(drivers, resp.name, resp.pool)
           tokens == TokenMatches(drivers, resp.name, resp.pool)
       IN  /\ Cardinality(candidates) = 1
                 => resp.result = FirstOf(resp.pool, candidates)
           /\ Cardinality(candidates) > 1
                 => resp.result = IF tokens # {} THEN FirstOf(resp.pool, tokens)
                                  ELSE NULL

\* the second tier has picked the one driver with the file name's last word
\* although another driver, earlier in the list, passes the third tier
C26_Witness ==
    /\ resp.op = "match" /\ Normalized(resp.name) # << >>
    /\ ExactMatches(drivers, resp.name, resp.pool) = {}
    /\ LET candidates == LastNameMatches(drivers, resp.name, resp.pool)
           tokens == TokenMatches(drivers, resp.name, resp.pool)
       IN  /\ Cardinality(candidates) = 1
           /\ resp.result = FirstOf(resp.pool, candidates)
           /\ tokens # {} /\ FirstOf(resp.pool, tokens) # resp.result

\* the entries of a sequence that name a driver
MatchedAt(m) == {k \in DOMAIN m : m[k] # NULL}

\* C23: in one Driver Route upload no driver is matched to two names of the
\* file; the upload is answered 200, adds at most one row per driver, and
\* counts every matched driver exactly once, as created or as skipped
C23_Step ==
    \A f \in RouteFiles, pool \in Orders(DriverIds) :
        (resp'.op = "bulk_names" /\ BulkUploadRoute(1, f, pool))
        => LET m == MatchNames(drivers, f, pool, 1, {})
               new == rows' \ rows
           IN  /\ \A j, k \in MatchedAt(m) : j # k => m[j] # m[k]
               /\ resp'.status = 200
               /\ \A r \in DriverIds :
                     Cardinality({a \in new : a.driver = r}) <= 1
               /\ resp'.created + resp'.skipped = Cardinality(MatchedAt(m))
               /\ resp'.created = Cardinality(new)

C23_Theorem == [][C23_Step]_vars

\* an upload has created a row for each of two drivers with different names,
\* and a file that lists twice a name both drivers pass the third tier for
\* can be uploaded next and counts two skipped, one per driver
C23_Witness ==
    /\ resp.op = "bulk_names" /\ resp.created = 2
    /\ drivers[1].name # drivers[2].name
    /\ \E n \in RouteNames :
          /\ TokenMatch(drivers, n, 1) /\ TokenMatch(drivers, n, 2)
          /\ ~ExactMatch(drivers, n, 2)
          /\ ENABLED (BulkUploadRoute(1, <<n, n>>, <<1, 2>>) /\ resp'.skipped = 2)

\* C24: a request of account u to a route behind a minimum role runs the
\* handler only if u is a known, active account whose role level is at least
\* the minimum's; a known, active account below it gets 403, any other token
\* 401, and either way no table changes
C24_Step ==
    \A u \in UserIds :
        (resp'.op \in DOMAIN MinRole /\ Request(u, resp'.op))
        => LET known == u \in DOMAIN users /\ users[u].active
               enough == known /\ RoleLevel(users[u].role)
                                     >= RoleLevel(MinRole[resp'.op])
           IN  /\ resp'.status = 401 <=> ~known
               /\ resp'.status = 403 <=> (known /\ ~enough)
               /\ ~enough => UNCHANGED <<rows, preassign, vans, drivers, users>>

UpsertPreassignment(r, v) ==
    LET existing == ExistingPreassignment(preassign, r)
        old == CHOOSE p \in existing : TRUE
        pa == Preassignment(NewId(preassign), r, v)
        known == r \in DOMAIN drivers /\ v \in DOMAIN vans
    IN  /\ (known /\ existing = {}) => pa.id <= MaxId
        /\ IF r \notin DOMAIN drivers
           THEN /\ preassign' = preassign
                /\ resp' = Response("preassign", 404, "driver_not_found", NULL, NULL)
           ELSE IF v \notin DOMAIN vans
           THEN /\ preassign' = preassign
                /\ resp' = Response("preassign", 404, "van_not_found", NULL, NULL)
           ELSE IF existing # {}
           THEN /\ preassign' = (preassign \ {old}) \cup {[old EXCEPT !.van = v]}
                /\ resp' = Response("preassign", 201, "replaced", old.id, NULL)
           ELSE IF \E p \in preassign : p.driver = r
           THEN /\ preassign' = preassign
                /\ resp' = Response("preassign", 500, "crash", NULL, NULL)
           ELSE /\ preassign' = preassign \cup {pa}
                /\ resp' = Response("preassign", 201, "created", pa.id, NULL)
        /\ UNCHANGED <<rows, vans, drivers>>

\* DELETE /api/preassignments/{preassignment_id}
DeletePreassignment(i) ==
    /\ IF ~\E p \in preassign : p.id = i
       THEN /\ preassign' = preassign
            /\ resp' = Response("unpreassign", 404, "not_found", NULL, NULL)
       ELSE /\ preassign' = {p \in preassign : p.id # i}
            /\ resp' = Response("unpreassign", 200, "deleted", i, NULL)
    /\ UNCHANGED <<rows, vans, drivers>>

\* preassignment upserts and deletes, next to driver-only creates that read
\* the preassignments and deletes of their rows
NextPre ==
    /\ \/ \E r \in DriverIds \cup {MissingDriver}, v \in VanIds \cup {MissingVan} :
              UpsertPreassignment(r, v)
       \/ \E i \in RowIds : DeletePreassignment(i)
       \/ \E d \in Dates, r \in DriverIds : CreateAssignment(d, NULL, r, NoNotes)
       \/ \E i \in RowIds : DeleteAssignment(i)
    /\ UNCHANGED <<procs, audit, writes, users>>

SpecPre == Init /\ [][NextPre]_vars

\* C25: in every reachable state each driver has at most one preassignment
\* record; an upsert for a driver who has one answers 201 and puts the new van
\* into that record, whose id is kept, and changes no other record; an upsert
\* naming a driver or van that does not exist answers 404 and changes nothing.
C25_Step ==
    /\ \A p, q \in preassign' : p.driver = q.driver => p = q
    /\ \A r \in DriverIds \cup {MissingDriver}, v \in VanIds \cup {MissingVan} :
        (resp'.op = "preassign" /\ UpsertPreassignment(r, v))
        => /\ (r = MissingDriver \/ v = MissingVan)
              => /\ resp'.status = 404
                 /\ UNCHANGED <<rows, preassign, vans, drivers>>
           /\ \A p \in preassign :
                  (p.driver = r /\ v # MissingVan)
                  => /\ resp'.status = 201 /\ resp'.id = p.id
                     /\ preassign' = (preassign \ {p})
                                         \cup {Preassignment(p.id, r, v)}

C25_Theorem == [][C25_Step]_vars

\* a driver's record was given another van by an upsert, next to the record
\* of another driver
C25_Witness ==
    /\ resp.op = "preassign" /\ resp.detail = "replaced"
    /\ \E p, q \in preassign : /\ p.id = resp.id /\ p.van = 2
                               /\ q.driver # p.driver

\* C27: a create whose van does not exist answers 404 for the van, and one
\* whose van is held by a row of the date answers 409 for the van, whatever the
\* driver of the request is (none, unknown, taken on the date or free); a
\* driver error is answered only when the request names no van or a van that
\* exists and is free on the date.
C27_Step ==
    \A d \in Dates, v \in CreateVanInputs, r \in CreateDriverInputs :
        (/\ resp'.op = "create"
         /\ \/ v # NULL /\ (v \notin DOMAIN vans \/ VanTaken(rows, d, v))
            \/ resp'.detail \in {"driver_not_found", "driver_conflict"}
         /\ \E n \in NoteVals : CreateAssignment(d, v, r, n))
        => /\ (v # NULL /\ v \notin DOMAIN vans)
              => resp'.status = 404 /\ resp'.detail = "van_not_found"
           /\ (v \in DOMAIN vans /\ VanTaken(rows, d, v))
              => resp'.status = 409 /\ resp'.detail = "van_conflict"
           /\ resp'.detail \in {"driver_not_found", "driver_conflict"}
              => v = NULL \/ (v \in DOMAIN vans /\ ~VanTaken(rows, d, v))

C27_Theorem == [][C27_Step]_vars

\* a create was answered with the van conflict, the rows are as it found
\* them, and a request whose van and driver are both taken on a date, in two
\* different rows, gets the van conflict
C27_Witness ==
    /\ resp.op = "create" /\ resp.detail = "van_conflict"
    /\ \E a, b \in rows :
           /\ a.date = b.date /\ a.van # NULL /\ b.driver # NULL /\ a # b
           /\ ENABLED (/\ CreateAssignment(a.date, a.van, b.driver, NoNotes)
                       /\ resp'.detail = "van_conflict")

\* ---------------------------------------------------------------- SpecRefs
\* creates and updates that may name a van or a driver that does not exist,
\* and deletes, on one date

NextRefs ==
    /\ UNCHANGED <<procs, audit, writes, users>>
    /\ \/ \E v \in CreateVanInputs, r \in CreateDriverInputs :
              CreateAssignment(1, v, r, NoNotes)
       \/ \E i \in RowIds, v \in CreateVanInputs, r \in CreateDriverInputs :
              UpdateAssignment(i, 1, v, r, NoNotes)
       \/ \E i \in RowIds : DeleteAssignment(i)

SpecRefs == Init /\ [][NextRefs]_vars

\* C29 (as stated): the van and the driver of every assignment row exist
C29_RefsExist == \A a \in rows : RefsExist(a.van, a.driver)

\* C29 (as stated): a create or an update that names a van or a driver that
\* does not exist answers 404 and changes no row
C29_Step ==
    \A v \in CreateVanInputs, r \in CreateDriverInputs :
        (/\ resp'.op \in {"create", "update"}
         /\ ~RefsExist(v, r)
         /\ \/ CreateAssignment(1, v, r, NoNotes)
            \/ \E i \in RowIds : HasRow(rows, i) /\ UpdateAssignment(i, 1, v, r, NoNotes))
        => resp'.status = 404 /\ rows' = rows

\* C29: in every reachable state every non-null van and driver reference of a
\* row names an existing record, and a create or an update of an existing row
\* that names a missing van or driver answers 404 and leaves the rows as they
\* were.
C29_Stated == [](C29_RefsExist) /\ [][C29_Step]_vars

\* C30: Unpair followed by Pair of the two returned ids is the identity.  A
\* successful unpair of row R leaves every other row as it was, R without its
\* van, and one new row, of the second returned id, with R's date and van;
\* the pair of the two returned ids that follows succeeds and leaves every
\* other row as it was, the new row gone, and the first row with its id, date,
\* driver and notes and with the van of the new row: R as it was.
C30_Step ==
    /\ \A i \in RowIds :
           (resp'.op = "unpair" /\ resp'.status = 200 /\ UnpairAssignment(i))
           => LET R == RowOf(rows, i)
              IN  /\ resp'.id = i
                  /\ [R EXCEPT !.van = NULL] \in rows'
                  /\ \E b \in rows' :
                         /\ b.id = resp'.id2 /\ b.id # i
                         /\ b.date = R.date /\ b.van = R.van
                         /\ rows' \ {[R EXCEPT !.van = NULL], b} = rows \ {R}
    /\ (/\ resp.op = "unpair" /\ resp.status = 200
        /\ resp'.op = "pair"
        /\ PairAssignments(resp.id, resp.id2))
       => LET a == RowOf(rows, resp.id)
              b == RowOf(rows, resp.id2)
          IN  /\ resp'.status = 200
              /\ rows' = (rows \ {a, b})
                             \cup {DailyAssignment(a.id, a.date, b.van,
                                                   a.driver, a.notes)}

C30_Theorem == [][C30_Step]_vars

\* a row with notes was unpaired next to another row, and the pair of the two
\* returned ids is accepted
C30_Witness ==
    /\ resp.op = "unpair" /\ resp.status = 200
    /\ \E a \in rows : a.id = resp.id /\ a.notes # NoNotes
    /\ \E c \in rows : c.id \notin {resp.id, resp.id2}
    /\ ENABLED (PairAssignments(resp.id, resp.id2) /\ resp'.status = 200)

\* C28: in every reachable state, whatever creates, updates, deletes, pairs,
\* unpairs and bulk uploads have run, every assignment row names a van or a
\* driver: no row has both references null.
C28_VanOrDriver == \A a \in rows : a.van # NULL \/ a.driver # NULL

\* an update has cleared the van of a row that keeps its driver, next to a row
\* that has a van and no driver
C28_Witness ==
    /\ resp.op = "update" /\ resp.status = 200
    /\ \E a, b \in rows : /\ a.id = resp.id /\ a.van = NULL
                          /\ b.van # NULL /\ b.driver = NULL

====
